---------------------------- MODULE Spec2Model ----------------------------
(***************************************************************************)
(* A model of src/src/weather-station.js (class WeatherStation).           *)
(*                                                                         *)
(* The program is single-threaded JavaScript: an event (an adapter or      *)
(* peripheral callback, a timer, a public call) runs to completion and the *)
(* promise reactions it queues (microtasks) run before the next event is   *)
(* delivered.  One action of this model is therefore one event together    *)
(* with the promise reactions that follow it.                              *)
(*                                                                         *)
(* Three specifications share the module: SpecConn models one connection   *)
(* session (connect, _getCharacteristics, _setupListeners, _initialize,    *)
(* writeSetting, write, _write), SpecScan models one scan session          *)
(* (powerOn, scan, scanForReadings, stopScan, getRecord), SpecAdvert the   *)
(* handling of one advertisement by the discover handler of each public    *)
(* operation.  noble (the radio adapter) is the environment of all.        *)
(***************************************************************************)
EXTENDS Integers, Sequences, FiniteSets, TLC

VARIABLES
    \* ---- connection session ----
    pState,          \* this.peripheral.state
    connSt,          \* where connect()'s promise chain stands
    connErr,         \* the error connect() rejected with
    discL,           \* 'disconnect' listeners registered on the peripheral
    subscribed,      \* notify characteristics whose subscribe was acknowledged
    cmds,            \* the _write calls made so far, in call order
    notif,           \* a 'data' event of a notify characteristic, in flight
    connectedCount,  \* number of times 'connected' was emitted
    \* ---- scan session ----
    nobleState,      \* noble.state
    mode,            \* the public scan operation that was called
    allow,           \* the address allow-list handed to the scan
    poSt,            \* powerOn()'s promise
    poTimer,         \* powerOn's 5 s timer is armed
    poL,             \* powerOn's 'stateChange' listener is registered
    scanSt,          \* the scan promise (scan / scanForReadings)
    scanErr,         \* the error the scan promise rejected with
    scanL,           \* the scan's listeners registered on noble
    adQ,             \* requests the adapter has not answered yet
    adScanning,      \* the adapter is scanning
    stopCbs,         \* stopScan() callbacks waiting for 'scanStop'
    stations,        \* scan(): the stations discovered so far
    scanVal,         \* the value the scan promise resolved with
    included,        \* getRecord(): includedReadings
    record,          \* getRecord(): the Record
    grSt,            \* getRecord()'s promise
    grErr,           \* the error getRecord() rejected with
    grTimer,         \* getRecord()'s deadline timer
    grVal,           \* the value getRecord() resolved with
    poErrState,      \* the adapter state powerOn's timeout error carries
    \* ---- one advertisement handled by one public operation ----
    advOp,           \* the operation whose discover handler runs
    advAddr,         \* peripheral.address
    advData,         \* peripheral.advertisement.manufacturerData
    advAllow,        \* the addresses argument of the operation
    advOut,          \* what the handler passed on (station or readings)
    advDone          \* the handler has run

connVars == <<pState, connSt, connErr, discL, subscribed, cmds, notif,
              connectedCount>>

scanVars == <<nobleState, mode, allow, poSt, poTimer, poL, scanSt, scanErr,
              scanL, adQ, adScanning, stopCbs, stations, scanVal, included,
              record, grSt, grErr, grTimer, grVal, poErrState>>

advVars == <<advOp, advAddr, advData, advAllow, advOut, advDone>>

vars == <<connVars, scanVars, advVars>>

-----------------------------------------------------------------------------
(* Bounds of the model.                                                    *)

\* _write calls of one session: the three of _initialize and the caller's.
MaxCmds == 4

\* Requests the adapter has been sent and has not answered yet.
MaxPending == 3

\* Stations one scan() collects.
MaxStations == 2

-----------------------------------------------------------------------------
(* Connection session: constants.                                          *)

\* The response code every initialization command expects (0x80).
InitResponseCode == 128

\* The payloads of _initialize, in the order the source writes them.
InitCommands ==
    << <<6, 6, 48, 48, 48, 48, 48, 48>>,
       <<5, 6, 48, 48, 48, 48, 48, 48>>,
       <<170, 2, 51, 255>> >>

\* The two command channels: writeSetting uses the settings pair of
\* characteristics, write the data pair.
Channels == {"settings", "data"}

\* Payloads a notify characteristic delivers: byte 0 is the response code.
Payloads == { <<128, 0>>, <<128, 1>>, <<129, 0>> }

\* Response codes and the payload a caller's command uses.
UserCodes == {128, 129}
UserData == <<1, 2>>

-----------------------------------------------------------------------------
(* CommandChannel: _write and its two callbacks.                           *)

\* A _write that issues the write without having registered its listener.
_writeUnregistered(chan, data, code) ==
    [chan |-> chan, data |-> data, code |-> code, st |-> "pending",
     listener |-> FALSE, wr |-> "issued", res |-> <<>>]

\* _write: the 'data' listener is registered on the notify characteristic,
\* then the write is issued on the write characteristic.
_write(chan, data, code) ==
    [chan |-> chan, data |-> data, code |-> code, st |-> "pending",
     listener |-> TRUE, wr |-> "issued", res |-> <<>>]

\* A dataHandler that does not look at isNotification.
dataHandlerAnyDelivery(c, receivedData, isNotification) ==
    IF receivedData[1] = c.code
    THEN [c EXCEPT !.listener = FALSE,
                   !.st = IF c.st = "pending" THEN "resolved" ELSE c.st,
                   !.res = IF c.st = "pending" THEN receivedData ELSE c.res]
    ELSE c

\* dataHandler of command c, called with a 'data' event while registered.
dataHandler(c, receivedData, isNotification) ==
    IF isNotification /\ receivedData[1] = c.code
    THEN [c EXCEPT !.listener = FALSE,
                   !.st = IF c.st = "pending" THEN "resolved" ELSE c.st,
                   !.res = IF c.st = "pending" THEN receivedData ELSE c.res]
    ELSE c

\* A write callback that rejects and leaves the 'data' listener registered.
writeCallbackKeepsListener(c, error) ==
    IF error
    THEN [c EXCEPT !.wr = "failed",
                   !.st = IF c.st = "pending" THEN "rejected" ELSE c.st]
    ELSE [c EXCEPT !.wr = "ok"]

\* The callback of writeCharacteristic.write for command c.
writeCallback(c, error) ==
    IF error
    THEN [c EXCEPT !.wr = "failed",
                   !.listener = FALSE,
                   !.st = IF c.st = "pending" THEN "rejected" ELSE c.st]
    ELSE [c EXCEPT !.wr = "ok"]

\* writeSetting and write choose the pair of characteristics.
writeSetting(data, responseCommand) == _write("settings", data, responseCommand)

write(data, responseCommand) == _write("data", data, responseCommand)

-----------------------------------------------------------------------------
(* ConnectionSession.                                                      *)

\* An _initialize that registers no 'disconnect' listener.
NoInitializeListener == {}

\* _initialize, line 297: the 'disconnect' listener it registers.
InitializeListener == {"initialize"}

\* _initialize, lines 300-304.  The arguments of the two inner .then(...)
\* are calls, not functions: the three writeSetting calls are evaluated one
\* after the other while the chain is built, and .then ignores an argument
\* that is not a function.
InitializeWrites ==
    << writeSetting(InitCommands[1], InitResponseCode),
       writeSetting(InitCommands[2], InitResponseCode),
       writeSetting(InitCommands[3], InitResponseCode) >>

\* _initialize, lines 300-312: the chain follows the promise of the first
\* writeSetting only.
InitializeChain(cs) ==
    IF cs[1].st = "resolved" THEN "resolved"
    ELSE IF cs[1].st = "rejected" THEN "rejected"
    ELSE "pending"

\* The promise reactions after an event changed the commands to cs.
SettleInitialize(cs) ==
    LET out == InitializeChain(cs) IN
    IF connSt = "initializing" /\ out = "resolved"
    THEN /\ connSt' = "resolved"
         /\ connErr' = connErr
         /\ discL' = discL \ {"initialize"}
         /\ connectedCount' = connectedCount + 1
    ELSE IF connSt = "initializing" /\ out = "rejected"
    THEN /\ connSt' = "rejected"
         /\ connErr' = "write"
         /\ discL' = discL \ {"initialize"}
         /\ connectedCount' = connectedCount
    ELSE UNCHANGED <<connSt, connErr, discL, connectedCount>>

\* connect(): emits 'connecting'; an already connected peripheral resolves
\* at once and _getCharacteristics starts, otherwise peripheral.connect.
Connect ==
    /\ connSt = "idle"
    /\ IF pState = "connected"
       THEN /\ connSt' = "discovering"
            /\ discL' = discL \cup {"getCharacteristics"}
       ELSE /\ connSt' = "connecting"
            /\ discL' = discL
    /\ UNCHANGED <<pState, connErr, subscribed, cmds, notif, connectedCount>>
    /\ UNCHANGED <<scanVars, advVars>>

\* The callback of peripheral.connect.
ConnectCallback(error) ==
    /\ connSt = "connecting"
    /\ IF error
       THEN /\ connSt' = "rejected"
            /\ connErr' = "connect"
            /\ UNCHANGED <<pState, discL>>
       ELSE /\ pState' = "connected"
            /\ connSt' = "discovering"
            /\ connErr' = connErr
            /\ discL' = discL \cup {"getCharacteristics"}
    /\ UNCHANGED <<subscribed, cmds, notif, connectedCount>>
    /\ UNCHANGED <<scanVars, advVars>>

\* The callback of discoverSomeServicesAndCharacteristics.
DiscoverCallback(error) ==
    /\ connSt = "discovering"
    /\ pState = "connected"
    /\ IF error
       THEN /\ connSt' = "rejected"
            /\ connErr' = "discover"
            /\ discL' = discL \ {"getCharacteristics"}
       ELSE /\ connSt' = "subscribing1"
            /\ connErr' = connErr
            /\ discL' = (discL \ {"getCharacteristics"}) \cup {"setupListeners"}
    /\ UNCHANGED <<pState, subscribed, cmds, notif, connectedCount>>
    /\ UNCHANGED <<scanVars, advVars>>

\* The callback of settingsNotifyCharacteristic.subscribe.
SubscribeSettingsCallback(error) ==
    /\ connSt = "subscribing1"
    /\ pState = "connected"
    /\ IF error
       THEN /\ connSt' = "rejected"
            /\ connErr' = "subscribe"
            /\ discL' = discL \ {"setupListeners"}
            /\ subscribed' = subscribed
       ELSE /\ connSt' = "subscribing2"
            /\ connErr' = connErr
            /\ discL' = discL
            /\ subscribed' = subscribed \cup {"settings"}
    /\ UNCHANGED <<pState, cmds, notif, connectedCount>>
    /\ UNCHANGED <<scanVars, advVars>>

\* The callback of notifyCharacteristic.subscribe; on success _initialize
\* starts: it registers its 'disconnect' listener and builds its chain.
SubscribeDataCallback(error) ==
    /\ connSt = "subscribing2"
    /\ pState = "connected"
    /\ IF error
       THEN /\ connSt' = "rejected"
            /\ connErr' = "subscribe"
            /\ discL' = discL \ {"setupListeners"}
            /\ UNCHANGED <<subscribed, cmds>>
       ELSE /\ connSt' = "initializing"
            /\ connErr' = connErr
            /\ discL' = (discL \ {"setupListeners"}) \cup InitializeListener
            /\ subscribed' = subscribed \cup {"data"}
            /\ cmds' = cmds \o InitializeWrites
    /\ UNCHANGED <<pState, notif, connectedCount>>
    /\ UNCHANGED <<scanVars, advVars>>

\* The callback of writeCharacteristic.write of the i-th command.
WriteCallback(i, error) ==
    /\ pState = "connected"
    /\ i \in DOMAIN cmds
    /\ cmds[i].wr = "issued"
    /\ cmds' = [cmds EXCEPT ![i] = writeCallback(@, error)]
    /\ SettleInitialize(cmds')
    /\ UNCHANGED <<pState, subscribed, notif>>
    /\ UNCHANGED <<scanVars, advVars>>

\* The device sends on a notify characteristic: a notification (only when
\* subscribed) or the answer to a read.
Notify(chan, data, isNotification) ==
    /\ pState = "connected"
    /\ connSt \in {"subscribing2", "initializing", "resolved"}
    /\ notif = <<>>
    /\ isNotification => chan \in subscribed
    /\ notif' = << [chan |-> chan, data |-> data,
                    isNotification |-> isNotification] >>
    /\ UNCHANGED <<pState, connSt, connErr, discL, subscribed, cmds,
                   connectedCount>>
    /\ UNCHANGED <<scanVars, advVars>>

\* The 'data' event is emitted: every dataHandler registered on the
\* characteristic is called.
DeliverData ==
    /\ notif # <<>>
    /\ LET ev == notif[1] IN
       cmds' = [i \in DOMAIN cmds |->
                  IF cmds[i].chan = ev.chan /\ cmds[i].listener
                  THEN dataHandler(cmds[i], ev.data, ev.isNotification)
                  ELSE cmds[i]]
    /\ notif' = <<>>
    /\ SettleInitialize(cmds')
    /\ UNCHANGED <<pState, subscribed>>
    /\ UNCHANGED <<scanVars, advVars>>

\* The peripheral emits 'disconnect': the registered (once) listeners run;
\* events are delivered in order of arrival.
Disconnect ==
    /\ pState = "connected"
    /\ connSt # "idle"
    /\ notif = <<>>
    /\ pState' = "disconnected"
    /\ discL' = {}
    /\ IF discL # {}
       THEN connSt' = "rejected" /\ connErr' = "disconnected"
       ELSE UNCHANGED <<connSt, connErr>>
    /\ UNCHANGED <<subscribed, cmds, notif, connectedCount>>
    /\ UNCHANGED <<scanVars, advVars>>

\* The caller of a ready session sends a command, one at a time per channel.
UserWrite(chan, code) ==
    /\ connSt = "resolved"
    /\ pState = "connected"
    /\ Len(cmds) < MaxCmds
    /\ \A i \in DOMAIN cmds : cmds[i].chan = chan => cmds[i].st # "pending"
    /\ cmds' = Append(cmds, IF chan = "settings"
                            THEN writeSetting(UserData, code)
                            ELSE write(UserData, code))
    /\ UNCHANGED <<pState, connSt, connErr, discL, subscribed, notif,
                   connectedCount>>
    /\ UNCHANGED <<scanVars, advVars>>

ConnInit ==
    /\ pState \in {"disconnected", "connected"}
    /\ connSt = "idle"
    /\ connErr = "none"
    /\ discL = {}
    /\ subscribed = {}
    /\ cmds = <<>>
    /\ notif = <<>>
    /\ connectedCount = 0

-----------------------------------------------------------------------------
(* Scan session: constants and the data of an advertisement.               *)

\* COMPANY_ID, 0x4842.
COMPANY_ID == 18498

\* noble.state values.
AdapterStates == {"unknown", "poweredOn", "poweredOff"}

\* Reading names and values; getRecord is asked for one or two names.
Names == {"temperature", "humidity", "pressure"}
Values == {1, 2}
IncludedChoices == { <<"temperature">>, <<"temperature", "humidity">> }

\* Strings are sequences of characters.
HexDigits ==
    <<"0", "1", "2", "3", "4", "5", "6", "7", "8", "9",
      "a", "b", "c", "d", "e", "f">>

\* peripheral.address of two devices as noble reports it, and the six bytes
\* each device embeds in its advertisement (little endian).  The second
\* address starts with a zero digit.
AddrA == <<"a","b",":","c","d",":","e","f",":","0","1",":","2","3",":","4","5">>
AddrZ == <<"0","b",":","c","d",":","e","f",":","0","1",":","2","3",":","4","5">>
BytesA == <<69, 35, 1, 239, 205, 171>>
BytesZ == <<69, 35, 1, 239, 205, 11>>

\* The same device address as a caller may write it in an allow-list.
AddrAUpper == <<"A","B",":","C","D",":","E","F",":","0","1",":","2","3",":","4","5">>
AddrAPlain == <<"a","b","c","d","e","f","0","1","2","3","4","5">>

\* peripheral.address: a device address, or empty when the platform gives none.
PeripheralAddresses == {AddrA, AddrZ, <<>>}

\* The addresses argument: null, or a list of addresses.
Null == [on |-> FALSE, list |-> <<>>]
AllowInputs ==
    { Null,
      [on |-> TRUE, list |-> <<>>],
      [on |-> TRUE, list |-> <<AddrAPlain>>],
      [on |-> TRUE, list |-> <<AddrAUpper>>] }

\* String.prototype.toLowerCase on the characters of an address.
toLowerCase(str) ==
    [i \in DOMAIN str |->
        CASE str[i] = "A" -> "a" [] str[i] = "B" -> "b" [] str[i] = "C" -> "c"
          [] str[i] = "D" -> "d" [] str[i] = "E" -> "e" [] str[i] = "F" -> "f"
          [] OTHER -> str[i]]

\* str.replace(/:/g, '').
StripColons(str) == SelectSeq(str, LAMBDA ch : ch # ":")

\* getNormalizedAddresses: a falsy value for null and for the empty list.
getNormalizedAddresses(addresses) ==
    IF addresses.on /\ Len(addresses.list) > 0
    THEN [on |-> TRUE,
          list |-> [i \in DOMAIN addresses.list |->
                      StripColons(toLowerCase(addresses.list[i]))]]
    ELSE Null

\* addresses.indexOf(address) === -1; address is empty when undefined.
NotListed(addresses, address) ==
    \A i \in DOMAIN addresses.list : addresses.list[i] # address

\* peripheral.address && peripheral.address.replace(/:/g, '').
AddressOf(peripheralAddress) == StripColons(peripheralAddress)

\* data.readUInt16LE(0).
readUInt16LE(data) == data[1] + 256 * data[2]

\* Number.prototype.toString(16) of the value of big-endian bytes: two digits
\* a byte, leading zero digits dropped.
RECURSIVE HexOfBytes(_)
HexOfBytes(bytes) ==
    IF bytes = <<>> THEN <<>>
    ELSE <<HexDigits[(Head(bytes) \div 16) + 1], HexDigits[(Head(bytes) % 16) + 1]>>
         \o HexOfBytes(Tail(bytes))

RECURSIVE DropLeadingZeros(_)
DropLeadingZeros(str) ==
    IF Len(str) > 1 /\ Head(str) = "0" THEN DropLeadingZeros(Tail(str)) ELSE str

Reverse(seq) == [i \in DOMAIN seq |-> seq[Len(seq) + 1 - i]]

\* data.readUIntLE(2, 6).toString(16).
readUIntLEHex(data) == DropLeadingZeros(HexOfBytes(Reverse(SubSeq(data, 3, 8))))

\* Reading.parseReadings(data.slice(8)): the decoder is not part of the
\* source at hand; a reading is taken to be two bytes, name code and value.
NameOfCode(code) ==
    CASE code = 1 -> "temperature" [] code = 2 -> "humidity" [] OTHER -> "pressure"

RECURSIVE parseReadings(_)
parseReadings(bytes) ==
    IF Len(bytes) < 2 THEN <<>>
    ELSE <<[name |-> NameOfCode(bytes[1]), value |-> bytes[2]]>>
         \o parseReadings(SubSeq(bytes, 3, Len(bytes)))

\* Manufacturer data an advertisement may carry: company id, embedded
\* address, reading bytes.
CompanyBytes == { <<66, 72>>, <<66, 73>> }
ReadingBytes ==
    { <<>>, <<1, 1>>, <<1, 2>>, <<2, 1>>, <<3, 1>>, <<1, 1, 2, 2>> }
ManufacturerData ==
    { c \o a \o r : c \in CompanyBytes, a \in {BytesA, BytesZ}, r \in ReadingBytes }

\* scanForReadings.discoverHandler, lines 98-120: the readings handed to
\* readingHandler for one advertisement.
ReadingsOf(peripheralAddress, data, addresses) ==
    LET address == AddressOf(peripheralAddress) IN
    IF Len(data) < 9 \/ readUInt16LE(data) # COMPANY_ID THEN <<>>
    ELSE IF address # <<>> /\ readUIntLEHex(data) # address THEN <<>>
    ELSE IF addresses.on /\ NotListed(addresses, address) THEN <<>>
    ELSE parseReadings(SubSeq(data, 9, Len(data)))

\* scan._discoverHandler, lines 50-62: whether the peripheral is kept.
Accepted(peripheralAddress, addresses) ==
    ~(addresses.on /\ NotListed(addresses, AddressOf(peripheralAddress)))

-----------------------------------------------------------------------------
(* ReadingAggregator: the Record and getRecord's readingHandler.           *)

\* new Record(): no reading.
EmptyRecord == [n \in {} |-> 0]

\* record.add(reading): the reading replaces the one of the same name.
RecordAdd(r, reading) ==
    [n \in DOMAIN r \cup {reading.name} |->
        IF n = reading.name THEN reading.value ELSE r[n]]

\* record.size: the number of names present.
RecordSize(r) == Cardinality(DOMAIN r)

Range(seq) == {seq[i] : i \in DOMAIN seq}

\* clearTimeout(timeout).
clearTimeout(timer) == IF timer = "armed" THEN "cleared" ELSE timer

\* A readingHandler that adds every reading, requested or not.
readingHandlerNoFilter(s, reading) ==
    LET r == RecordAdd(s.record, reading) IN
    IF RecordSize(r) >= Len(included)
    THEN [record |-> r, timer |-> clearTimeout(s.timer), stops |-> s.stops + 1]
    ELSE [s EXCEPT !.record = r]

\* A readingHandler that leaves the deadline timer armed.
readingHandlerKeepsTimer(s, reading) ==
    IF reading.name \in Range(included)
    THEN LET r == RecordAdd(s.record, reading) IN
         IF RecordSize(r) >= Len(included)
         THEN [record |-> r, timer |-> s.timer, stops |-> s.stops + 1]
         ELSE [s EXCEPT !.record = r]
    ELSE s

\* getRecord.readingHandler, lines 170-179; s holds the record, the timer and
\* the number of stopScan() calls made while one advertisement is handled.
readingHandler(s, reading) ==
    IF reading.name \in Range(included)
    THEN LET r == RecordAdd(s.record, reading) IN
         IF RecordSize(r) >= Len(included)
         THEN [record |-> r, timer |-> clearTimeout(s.timer), stops |-> s.stops + 1]
         ELSE [s EXCEPT !.record = r]
    ELSE s

\* Lines 116-118: readingHandler is called for each reading in turn.
RECURSIVE HandleReadings(_, _)
HandleReadings(s, readings) ==
    IF readings = <<>> THEN s
    ELSE HandleReadings(readingHandler(s, Head(readings)), Tail(readings))

\* n stop requests.
Stops(n) == [i \in 1..n |-> "stop"]

-----------------------------------------------------------------------------
(* DiscoveryScanner and ReadingAggregator: the operations.                 *)

\* A getRecord whose catch does not clear the deadline timer.
SettleScanKeepsTimer(outcome, err, val) ==
    /\ scanSt' = outcome
    /\ scanErr' = err
    /\ scanVal' = val
    /\ IF mode = "record"
       THEN /\ grSt' = outcome
            /\ grErr' = err
            /\ grTimer' = IF outcome = "resolved" THEN clearTimeout(grTimer)
                          ELSE grTimer
            /\ grVal' = IF outcome = "resolved" THEN record ELSE grVal
       ELSE UNCHANGED <<grSt, grErr, grTimer, grVal>>

\* The scan promise settles; getRecord's then / catch (lines 185-192) runs
\* when the scan is getRecord's.
SettleScan(outcome, err, val) ==
    /\ scanSt' = outcome
    /\ scanErr' = err
    /\ scanVal' = val
    /\ IF mode = "record"
       THEN /\ grSt' = outcome
            /\ grErr' = err
            /\ grTimer' = clearTimeout(grTimer)
            /\ grVal' = IF outcome = "resolved" THEN record ELSE grVal
       ELSE UNCHANGED <<grSt, grErr, grTimer, grVal>>

\* powerOn() and, once it resolved, noble.startScanning (lines 22-43, 46,
\* 81, 96, 139).
PowerOnThenStart ==
    IF nobleState = "poweredOn"
    THEN /\ poSt' = "resolved"
         /\ scanSt' = "starting"
         /\ adQ' = Append(adQ, "start")
         /\ UNCHANGED <<poTimer, poL>>
    ELSE /\ poSt' = "waiting"
         /\ poTimer' = TRUE
         /\ poL' = TRUE
         /\ scanSt' = "powering"
         /\ adQ' = adQ

\* WeatherStation.scan(discoverHandler, addresses).
CallScan(addresses) ==
    /\ mode = "none"
    /\ mode' = "scan"
    /\ allow' = addresses
    /\ PowerOnThenStart
    /\ UNCHANGED <<nobleState, scanErr, scanL, adScanning, stopCbs, stations,
                   scanVal, included, record, grSt, grErr, grTimer, grVal>>
    /\ UNCHANGED <<connVars, advVars, poErrState>>

\* WeatherStation.scanForReadings(readingHandler, addresses).
CallScanForReadings(addresses) ==
    /\ mode = "none"
    /\ mode' = "readings"
    /\ allow' = addresses
    /\ PowerOnThenStart
    /\ UNCHANGED <<nobleState, scanErr, scanL, adScanning, stopCbs, stations,
                   scanVal, included, record, grSt, grErr, grTimer, grVal>>
    /\ UNCHANGED <<connVars, advVars, poErrState>>

\* WeatherStation.getRecord(includedReadings, readTimeout, addresses): the
\* deadline timer is armed, then scanForReadings is called.
CallGetRecord(includedReadings, addresses) ==
    /\ mode = "none"
    /\ mode' = "record"
    /\ included' = includedReadings
    /\ allow' = getNormalizedAddresses(addresses)
    /\ grSt' = "pending"
    /\ grTimer' = "armed"
    /\ record' = EmptyRecord
    /\ PowerOnThenStart
    /\ UNCHANGED <<nobleState, scanErr, scanL, adScanning, stopCbs, stations,
                   scanVal, grErr, grVal>>
    /\ UNCHANGED <<connVars, advVars, poErrState>>

\* A stateChangeHandler of the scan that does not stop the adapter.
stateChangeHandlerNoStop == <<>>

\* scan / scanForReadings stateChangeHandler, lines 76 and 134: the request
\* it sends to the adapter (noble.stopScanning()).
stateChangeHandlerStops == <<"stop">>

\* noble emits 'stateChange': powerOn's listener (lines 33-39) or the scan's
\* stateChangeHandler (lines 71-79, 129-137) runs, whichever is registered.
StateChange(state) ==
    /\ state # nobleState
    /\ Len(adQ) < MaxPending
    /\ nobleState' = state
    /\ adScanning' = (adScanning /\ state = "poweredOn")
    /\ IF poL /\ state = "poweredOn"
       THEN /\ poTimer' = FALSE
            /\ poL' = FALSE
            /\ poSt' = "resolved"
            /\ scanSt' = "starting"
            /\ adQ' = Append(adQ, "start")
            /\ UNCHANGED <<scanErr, scanL, scanVal, grSt, grErr, grTimer, grVal>>
       ELSE IF "stateChange" \in scanL /\ state # "poweredOn"
       THEN /\ scanL' = {}
            /\ adQ' = adQ \o stateChangeHandlerStops
            /\ SettleScan("rejected", "state", scanVal)
            /\ UNCHANGED <<poTimer, poL, poSt>>
       ELSE UNCHANGED <<poTimer, poL, poSt, scanSt, scanErr, scanL, scanVal,
                        adQ, grSt, grErr, grTimer, grVal>>
    /\ UNCHANGED <<mode, allow, stopCbs, stations, included, record>>
    /\ UNCHANGED <<connVars, advVars, poErrState>>

\* A timer callback of powerOn that leaves the stateChange listener on.
PowerOnTimeoutKeepsListener ==
    /\ poTimer
    /\ poTimer' = FALSE
    /\ poL' = poL
    /\ poSt' = "rejected"
    /\ poErrState' = nobleState
    /\ SettleScan("rejected", "timeout", scanVal)
    /\ UNCHANGED <<nobleState, mode, allow, scanL, adQ, adScanning, stopCbs,
                   stations, included, record>>
    /\ UNCHANGED <<connVars, advVars>>

\* powerOn's 5 s timer fires (lines 28-31): powerOn rejects and with it the
\* scan.
PowerOnTimeout ==
    /\ poTimer
    /\ poTimer' = FALSE
    /\ poL' = FALSE
    /\ poSt' = "rejected"
    /\ poErrState' = nobleState
    /\ SettleScan("rejected", "timeout", scanVal)
    /\ UNCHANGED <<nobleState, mode, allow, scanL, adQ, adScanning, stopCbs,
                   stations, included, record>>
    /\ UNCHANGED <<connVars, advVars>>

\* The adapter answers startScanning: the callback of lines 81-90 and
\* 139-148 runs, with an error or (the adapter being on) without.
ScanStartCallback(error) ==
    /\ adQ # <<>>
    /\ Head(adQ) = "start"
    /\ adQ' = Tail(adQ)
    /\ IF error
       THEN /\ SettleScan("rejected", "start", scanVal)
            /\ UNCHANGED <<scanL, adScanning>>
       ELSE /\ nobleState = "poweredOn"
            /\ scanL' = {"discover", "scanStop", "stateChange"}
            /\ scanSt' = "started"
            /\ adScanning' = TRUE
            /\ UNCHANGED <<scanErr, scanVal, grSt, grErr, grTimer, grVal>>
    /\ UNCHANGED <<nobleState, mode, allow, poSt, poTimer, poL, stopCbs,
                   stations, included, record>>
    /\ UNCHANGED <<connVars, advVars, poErrState>>

\* A scanStopHandler that forgets the 'discover' listener.
scanStopHandlerKeepsDiscover == {"scanStop", "stateChange"}

\* scanStopHandler, lines 65-67 and 123-125: the listeners it removes.
scanStopHandlerRemoves == {"discover", "scanStop", "stateChange"}

\* The adapter answers stopScanning and noble emits 'scanStop': stopScan's
\* callbacks (lines 155-157) and the scan's scanStopHandler (lines 64-69,
\* 122-127) run.
ScanStop ==
    /\ adQ # <<>>
    /\ Head(adQ) = "stop"
    /\ adQ' = Tail(adQ)
    /\ adScanning' = FALSE
    /\ stopCbs' = 0
    /\ IF "scanStop" \in scanL
       THEN /\ scanL' = scanL \ scanStopHandlerRemoves
            /\ SettleScan("resolved", scanErr,
                          IF mode = "scan" THEN stations ELSE <<>>)
       ELSE UNCHANGED <<scanL, scanSt, scanErr, scanVal, grSt, grErr,
                        grTimer, grVal>>
    /\ UNCHANGED <<nobleState, mode, allow, poSt, poTimer, poL, stations,
                   included, record>>
    /\ UNCHANGED <<connVars, advVars, poErrState>>

\* WeatherStation.stopScan(), called by the user of a running scan.
StopScan ==
    /\ scanSt \in {"powering", "starting", "started"}
    /\ Len(adQ) < MaxPending
    /\ adQ' = Append(adQ, "stop")
    /\ stopCbs' = stopCbs + 1
    /\ UNCHANGED <<nobleState, mode, allow, poSt, poTimer, poL, scanSt,
                   scanErr, scanL, adScanning, stations, scanVal, included,
                   record, grSt, grErr, grTimer, grVal>>
    /\ UNCHANGED <<connVars, advVars, poErrState>>

\* getRecord's deadline timer fires (lines 163-166): stopScan().
DeadlineFires ==
    /\ grTimer = "armed"
    /\ Len(adQ) < MaxPending
    /\ grTimer' = "fired"
    /\ adQ' = Append(adQ, "stop")
    /\ stopCbs' = stopCbs + 1
    /\ UNCHANGED <<nobleState, mode, allow, poSt, poTimer, poL, scanSt,
                   scanErr, scanL, adScanning, stations, scanVal, included,
                   record, grSt, grErr, grVal>>
    /\ UNCHANGED <<connVars, advVars, poErrState>>

\* noble emits 'discover' for an advertisement: scan's _discoverHandler
\* (lines 50-62) or scanForReadings' discoverHandler (lines 98-120) runs.
Discover(peripheralAddress, data) ==
    /\ "discover" \in scanL
    /\ adScanning
    /\ nobleState = "poweredOn"
    /\ IF mode = "scan"
       THEN /\ peripheralAddress \notin Range(stations)
            /\ Len(stations) < MaxStations
            /\ stations' = IF Accepted(peripheralAddress, allow)
                           THEN Append(stations, peripheralAddress)
                           ELSE stations
            /\ UNCHANGED <<record, grTimer, adQ, stopCbs>>
       ELSE IF mode = "record"
       THEN LET readings == ReadingsOf(peripheralAddress, data, allow)
                s == HandleReadings(
                        [record |-> record, timer |-> grTimer, stops |-> 0],
                        readings)
            IN /\ Len(adQ) + Len(readings) <= MaxPending
               /\ record' = s.record
               /\ grTimer' = s.timer
               /\ adQ' = adQ \o Stops(s.stops)
               /\ stopCbs' = stopCbs + s.stops
               /\ stations' = stations
       ELSE UNCHANGED <<stations, record, grTimer, adQ, stopCbs>>
    /\ UNCHANGED <<nobleState, mode, allow, poSt, poTimer, poL, scanSt,
                   scanErr, scanL, adScanning, scanVal, included, grSt, grErr,
                   grVal>>
    /\ UNCHANGED <<connVars, advVars, poErrState>>

ScanIdle ==
    /\ mode = "none"
    /\ allow = Null
    /\ poSt = "idle"
    /\ poTimer = FALSE
    /\ poL = FALSE
    /\ scanSt = "idle"
    /\ scanErr = "none"
    /\ scanL = {}
    /\ adQ = <<>>
    /\ adScanning = FALSE
    /\ stopCbs = 0
    /\ stations = <<>>
    /\ scanVal = <<>>
    /\ included = <<>>
    /\ record = EmptyRecord
    /\ grSt = "idle"
    /\ grErr = "none"
    /\ grTimer = "none"
    /\ grVal = EmptyRecord
    /\ poErrState = "none"

ConnIdle ==
    /\ pState = "disconnected"
    /\ connSt = "idle"
    /\ connErr = "none"
    /\ discL = {}
    /\ subscribed = {}
    /\ cmds = <<>>
    /\ notif = <<>>
    /\ connectedCount = 0

AdvIdle ==
    /\ advOp = "none"
    /\ advAddr = <<>>
    /\ advData = <<>>
    /\ advAllow = Null
    /\ advOut = <<>>
    /\ advDone = FALSE

InitScan == ConnIdle /\ ScanIdle /\ AdvIdle /\ nobleState \in AdapterStates

NextScan ==
    \/ \E addresses \in AllowInputs : CallScan(addresses)
    \/ \E addresses \in AllowInputs : CallScanForReadings(addresses)
    \/ \E includedReadings \in IncludedChoices, addresses \in AllowInputs :
          CallGetRecord(includedReadings, addresses)
    \/ \E state \in AdapterStates : StateChange(state)
    \/ PowerOnTimeout
    \/ \E error \in BOOLEAN : ScanStartCallback(error)
    \/ ScanStop
    \/ StopScan
    \/ DeadlineFires
    \/ \E peripheralAddress \in PeripheralAddresses, data \in ManufacturerData :
          Discover(peripheralAddress, data)

SpecScan == InitScan /\ [][NextScan]_vars

InitConn == ConnInit /\ ScanIdle /\ AdvIdle /\ nobleState = "unknown"

NextConn ==
    \/ Connect
    \/ \E error \in BOOLEAN : ConnectCallback(error)
    \/ \E error \in BOOLEAN : DiscoverCallback(error)
    \/ \E error \in BOOLEAN : SubscribeSettingsCallback(error)
    \/ \E error \in BOOLEAN : SubscribeDataCallback(error)
    \/ \E i \in 1..MaxCmds, error \in BOOLEAN : WriteCallback(i, error)
    \/ \E chan \in Channels, data \in Payloads, isN \in BOOLEAN :
          Notify(chan, data, isN)
    \/ DeliverData
    \/ Disconnect
    \/ \E chan \in Channels, code \in UserCodes : UserWrite(chan, code)

SpecConn == InitConn /\ [][NextConn]_vars

-----------------------------------------------------------------------------
(* One advertisement handled by the discover handler of one public         *)
(* operation (AdvertisementFilter): the operation, the peripheral, its     *)
(* manufacturer data and the caller's allow-list are drawn at the start,   *)
(* the handler of the operation is then applied once.                      *)

Operations == {"scan", "scanForReadings", "getRecord"}

\* Allow-lists as a caller may write them: also colon-separated, and with
\* more than one entry.
AdvertAllowInputs ==
    AllowInputs \cup
    { [on |-> TRUE, list |-> <<AddrA>>],
      [on |-> TRUE, list |-> <<AddrAPlain, StripColons(AddrZ)>>] }

\* scan()'s _discoverHandler: the peripheral is wrapped in a station and
\* handed to the caller's discoverHandler unless the allow-list drops it.
ScanDiscovers ==
    /\ advOp = "scan" /\ ~advDone
    /\ advOut' = IF Accepted(advAddr, advAllow) THEN <<advAddr>> ELSE <<>>
    /\ advDone' = TRUE
    /\ UNCHANGED <<advOp, advAddr, advData, advAllow, connVars, scanVars>>

\* scanForReadings()'s discoverHandler, called with the caller's list as is.
ScanForReadingsDiscovers ==
    /\ advOp = "scanForReadings" /\ ~advDone
    /\ advOut' = ReadingsOf(advAddr, advData, advAllow)
    /\ advDone' = TRUE
    /\ UNCHANGED <<advOp, advAddr, advData, advAllow, connVars, scanVars>>

\* getRecord(): scanForReadings is called with getNormalizedAddresses(addresses).
GetRecordDiscovers ==
    /\ advOp = "getRecord" /\ ~advDone
    /\ advOut' = ReadingsOf(advAddr, advData, getNormalizedAddresses(advAllow))
    /\ advDone' = TRUE
    /\ UNCHANGED <<advOp, advAddr, advData, advAllow, connVars, scanVars>>

InitAdvert ==
    /\ ConnIdle /\ ScanIdle /\ nobleState = "poweredOn"
    /\ advOp \in Operations
    /\ advAddr \in PeripheralAddresses
    /\ advData \in ManufacturerData
    /\ advAllow \in AdvertAllowInputs
    /\ advOut = <<>>
    /\ advDone = FALSE

NextAdvert ==
    \/ ScanDiscovers
    \/ ScanForReadingsDiscovers
    \/ GetRecordDiscovers

SpecAdvert == InitAdvert /\ [][NextAdvert]_vars

-----------------------------------------------------------------------------
(* Properties of the connection session (checked under SpecConn).          *)

\* The three commands of _initialize are cmds[1..3].
InitStarted == Len(cmds) >= 3

\* A 'data' event is being delivered in this step.
Delivered == notif # <<>> /\ notif' = <<>>

\* Event ev is the response command c waits for.
Matches(c, ev) ==
    ev.chan = c.chan /\ ev.isNotification /\ ev.data[1] = c.code

\* C1 (as claimed): the initialization commands are issued strictly one
\* after the other: the 2nd command is written only after a matching
\* notification resolved the 1st, and the 3rd only after the 2nd's.
C1_InitSequential ==
    \A i \in 2..3 :
        Len(cmds) >= i => cmds[i-1].st = "resolved"

\* C2 (as claimed): when the write of any of the three initialization
\* commands fails, connect() does not resolve and 'connected' is not emitted.
C2_InitWriteFailureAborts ==
    \A i \in 1..3 :
        (InitStarted /\ cmds[i].st = "rejected")
            => (connSt # "resolved" /\ connectedCount = 0)

\* C3: a 'disconnect' delivered while _initialize is in flight rejects
\* connect() with the disconnected error without 'connected' having been
\* emitted, and from then on connect() stays rejected, 'connected' is not
\* emitted and no command write is issued.
C3_DisconnectDuringInitialize ==
    [][ /\ (connSt = "initializing" /\ pState = "connected"
              /\ pState' = "disconnected")
           => (connSt' = "rejected" /\ connErr' = "disconnected"
                 /\ connectedCount' = 0)
        /\ (connSt = "rejected" /\ connErr = "disconnected")
           => (connSt' = "rejected" /\ connErr' = "disconnected"
                 /\ connectedCount' = connectedCount
                 /\ Len(cmds') = Len(cmds)) ]_vars

\* C3 witness: connect() was rejected by a disconnect that arrived after
\* _initialize had issued its writes.
C3_Witness ==
    /\ InitStarted
    /\ pState = "disconnected"
    /\ connSt = "rejected"
    /\ connErr = "disconnected"

\* C4: a write error reported while the command is pending rejects it at
\* that moment and removes its 'data' listener; a rejected command has no
\* listener and no response, and no later delivery changes it.
C4_WriteFailureRejects ==
    /\ [](\A i \in DOMAIN cmds :
             cmds[i].st = "rejected"
                => (~cmds[i].listener /\ cmds[i].wr = "failed"
                      /\ cmds[i].res = <<>>))
    /\ [][\A i \in DOMAIN cmds :
             /\ (cmds[i].st = "pending" /\ cmds[i].wr = "issued"
                   /\ cmds'[i].wr = "failed")
                => (cmds'[i].st = "rejected" /\ ~cmds'[i].listener)
             /\ cmds[i].st = "rejected" => cmds'[i] = cmds[i]]_vars

\* C4 witness: a command was rejected by a write error and a notification
\* with its expected response code is about to be delivered on its channel.
C4_Witness ==
    \E i \in DOMAIN cmds :
        /\ cmds[i].st = "rejected"
        /\ notif # <<>>
        /\ Matches(cmds[i], notif[1])

\* C5: a command whose write has been issued and that is still pending has
\* its 'data' listener registered, also before the write is acknowledged,
\* and a matching notification delivered then resolves it.
C5_ListenerBeforeWrite ==
    /\ [](\A i \in DOMAIN cmds :
             (cmds[i].st = "pending" /\ cmds[i].wr \in {"issued", "ok"})
                => cmds[i].listener)
    /\ [][\A i \in DOMAIN cmds :
             (Delivered /\ cmds[i].st = "pending"
                /\ cmds[i].wr \in {"issued", "ok"}
                /\ Matches(cmds[i], notif[1]))
                => cmds'[i].st = "resolved"]_vars

\* C5 witness: a command was resolved by a notification that arrived before
\* its write was acknowledged.
C5_Witness ==
    \E i \in DOMAIN cmds : cmds[i].st = "resolved" /\ cmds[i].wr = "issued"

\* C6: a pending command is resolved only by the delivery, on its notify
\* characteristic, of a payload flagged isNotification whose first byte is
\* the expected response code; it then holds the full payload and has no
\* listener; any other delivery leaves it as it was; a resolved command is
\* not resolved again.
C6_ResolveOnlyOnMatch ==
    [][\A i \in DOMAIN cmds :
          /\ (cmds[i].st = "pending" /\ cmds'[i].st = "resolved")
             => (/\ Delivered
                 /\ Matches(cmds[i], notif[1])
                 /\ cmds'[i].res = notif[1].data
                 /\ ~cmds'[i].listener)
          /\ (Delivered /\ cmds[i].st = "pending" /\ cmds[i].listener)
             => IF Matches(cmds[i], notif[1])
                THEN cmds'[i].st = "resolved"
                ELSE cmds'[i] = cmds[i]
          /\ cmds[i].st = "resolved"
             => (/\ cmds'[i].st = "resolved"
                 /\ cmds'[i].res = cmds[i].res
                 /\ ~cmds'[i].listener)]_vars

\* C6 witness: a command resolved with the payload <<128, 1>> while another
\* payload with the same response code is about to be delivered.
C6_Witness ==
    \E i \in DOMAIN cmds :
        /\ cmds[i].st = "resolved"
        /\ cmds[i].res = <<128, 1>>
        /\ notif # <<>>
        /\ Matches(cmds[i], notif[1])
        /\ notif[1].data = <<128, 0>>

\* The phase of connect() that follows phase ph when ph succeeds.
NextPhase(ph) ==
    CASE ph = "idle" -> IF pState = "connected" THEN "discovering" ELSE "connecting"
      [] ph = "connecting" -> "discovering"
      [] ph = "discovering" -> "subscribing1"
      [] ph = "subscribing1" -> "subscribing2"
      [] ph = "subscribing2" -> "initializing"
      [] ph = "initializing" -> "resolved"
      [] OTHER -> ph

\* The three initialization commands have all been answered.
InitCompleted == InitStarted /\ \A i \in 1..3 : cmds[i].st = "resolved"

\* C15 (order): connect() moves from a phase only to the next one or to
\* failure, an already connected peripheral goes straight to discovery, no
\* initialization command exists before the subscribe phase succeeded, and
\* 'connected' is emitted at most once, exactly when connect() resolves.
C15_PhaseOrder ==
    /\ [](/\ connectedCount <= 1
          /\ connectedCount = 1 <=> connSt = "resolved"
          /\ cmds # <<>> => connSt \in {"initializing", "resolved", "rejected"}
          /\ connSt \in {"initializing", "resolved"} => subscribed = Channels)
    /\ [][connSt' # connSt =>
            (connSt' = "rejected" \/ connSt' = NextPhase(connSt))]_vars

\* C15: the phases run in order, and connect() resolves (emitting
\* 'connected', once) only after all four phases, initialization included,
\* have completed.
C15_ConnectedAfterAllPhases ==
    /\ C15_PhaseOrder
    /\ [](connSt = "resolved" => InitCompleted)

\* connect() has been called and has not settled.
InFlight ==
    connSt \in {"connecting", "discovering", "subscribing1", "subscribing2",
                "initializing"}

\* C16: while connect() is in flight, from the first request of each phase
\* on (the transport connect request included), a 'disconnect' listener is
\* installed, and a 'disconnect' event delivered then makes connect() reject
\* with the disconnected error.
C16_DisconnectRejectsInEveryPhase ==
    /\ [](InFlight => discL # {})
    /\ [][(InFlight /\ pState = "connected" /\ pState' = "disconnected")
            => (connSt' = "rejected" /\ connErr' = "disconnected")]_vars

\* C17: the data-notify subscribe is issued only after the settings-notify
\* subscribe was acknowledged; when the subscribe phase fails, initialization
\* never starts and no characteristic is left subscribed.
C17_NoPartialSubscribe ==
    /\ [](/\ connSt = "subscribing1" => subscribed = {}
          /\ connSt = "subscribing2" => subscribed = {"settings"}
          /\ (connSt = "rejected" /\ connErr = "subscribe")
                => (subscribed = {} /\ cmds = <<>>))
    /\ [][(connSt \in {"subscribing1", "subscribing2"} /\ connSt' = "rejected")
            => (cmds' = <<>> /\ subscribed' = {})]_vars

\* The commands of a channel whose 'data' listener is registered.
Listening(chan) == {i \in DOMAIN cmds : cmds[i].chan = chan /\ cmds[i].listener}

\* C18: at most one _write 'data' listener is registered on each notify
\* characteristic, at every state.
C18_OnePendingPerChannel ==
    \A chan \in Channels : Cardinality(Listening(chan)) <= 1

\* C20: when connect() has settled, no 'disconnect' listener of connect()
\* and no 'data' listener of an initialization command is registered.
C20_NoListenerAfterSettle ==
    connSt \in {"resolved", "rejected"} =>
        /\ discL = {}
        /\ \A i \in 1..3 : i \in DOMAIN cmds => ~cmds[i].listener

-----------------------------------------------------------------------------
(* Properties of the scan session (checked under SpecScan, FairSpecScan).  *)

\* The adapter answers every request it was sent.
FairSpecScan ==
    /\ SpecScan
    /\ WF_vars(ScanStop)
    /\ WF_vars(\E error \in BOOLEAN : ScanStartCallback(error))

\* The scan's listeners are registered and its promise is pending.
Started == scanSt = "started"

\* noble emits 'stateChange' with a state other than 'poweredOn'.
StateLeft == nobleState' # nobleState /\ nobleState' # "poweredOn"

\* noble emits 'scanStop' in this step.
ScanStopDelivered == adQ # <<>> /\ Head(adQ) = "stop" /\ adQ' = Tail(adQ)

\* The record holds as many names as were requested.
Full == mode = "record" /\ RecordSize(record) >= Len(included)

\* C7: once the scan has started, a state change away from 'poweredOn'
\* removes the scan's listeners, calls noble.stopScanning and rejects the
\* scan with the state-change error; a 'scanStop' resolves it (scan: with
\* the stations found, scanForReadings: with no value); a started scan
\* settles in one of these two ways only, and a settled scan never changes.
C7_StateChangeRejectsStopResolves ==
    [][ /\ (Started /\ StateLeft)
           => (/\ scanSt' = "rejected"
               /\ scanErr' = "state"
               /\ adQ' = Append(adQ, "stop")
               /\ scanL' = {})
        /\ (Started /\ ScanStopDelivered)
           => (/\ scanSt' = "resolved"
               /\ scanVal' = (IF mode = "scan" THEN stations ELSE <<>>)
               /\ scanL' = {})
        /\ (Started /\ scanSt' # "started")
           => (StateLeft \/ ScanStopDelivered)
        /\ scanSt \in {"resolved", "rejected"}
           => UNCHANGED <<scanSt, scanErr, scanVal>> ]_vars

\* C7 witness: a scan() that had found a station and whose user had called
\* stopScan() was rejected by a state change before 'scanStop' arrived.
C7_Witness ==
    /\ mode = "scan"
    /\ scanSt = "rejected"
    /\ scanErr = "state"
    /\ stations # <<>>
    /\ stopCbs > 0

\* C8 (as claimed): when the deadline has fired, no adapter failure occurred
\* and nothing is outstanding (power-on has completed, the adapter has
\* answered every request), scanning is stopped and getRecord has resolved
\* with the requested names received so far.
C8_DeadlineResolves ==
    (mode = "record" /\ grTimer = "fired" /\ scanErr = "none"
       /\ poSt # "waiting" /\ adQ = <<>>)
        => (/\ grSt = "resolved"
            /\ ~adScanning
            /\ DOMAIN grVal = DOMAIN record
            /\ DOMAIN grVal \subseteq Range(included))

\* C9 (as claimed): once the record is full the deadline timer is no longer
\* armed and getRecord does not reject: it resolves, with a record of the
\* requested size.
C9_FullThenResolves ==
    Full => (/\ grTimer # "armed"
             /\ grSt \in {"pending", "resolved"}
             /\ grSt = "resolved" => RecordSize(grVal) = Len(included))

\* C9 (amended): the reading that fills the record cancels the deadline
\* timer and requests stopScan, and the timer does not fire afterwards;
\* getRecord then settles: it resolves with a record of the requested size,
\* or rejects with the state-change error when the adapter leaves
\* 'poweredOn' before 'scanStop' is delivered.
C9_FullCancelsDeadline ==
    /\ [](Full => (/\ grTimer # "armed"
                   /\ grSt = "resolved" => RecordSize(grVal) = Len(included)
                   /\ grSt = "rejected" => grErr = "state"))
    /\ [][(mode = "record" /\ ~Full /\ Full')
            => (/\ grTimer' # "armed"
                /\ Len(adQ') > Len(adQ)
                /\ adQ'[Len(adQ')] = "stop"
                /\ stopCbs' > stopCbs)]_vars
    /\ [][(Full /\ grTimer = "cleared") => grTimer' = "cleared"]_vars
    /\ (Full ~> (grSt \in {"resolved", "rejected"}))

\* C9 witness: getRecord asked for two names resolved with both, the
\* deadline timer cancelled.
C9_Witness ==
    /\ Full
    /\ Len(included) = 2
    /\ grTimer = "cleared"
    /\ grSt = "resolved"
    /\ RecordSize(grVal) = 2

\* C10: the record holds requested names only, never more of them than were
\* requested, and a name once present stays present: the size never
\* decreases (a reading of a present name replaces its value).
C10_RecordBounded ==
    /\ [](/\ DOMAIN record \subseteq Range(included)
          /\ RecordSize(record) <= Len(included))
    /\ [][/\ DOMAIN record \subseteq DOMAIN record'
          /\ RecordSize(record') >= RecordSize(record)]_vars

\* C10 witness: the scan is still running, the record is full and holds the
\* second temperature value delivered, and stopScan has been requested more
\* than once: a requested reading arrived after stop had been requested.
C10_Witness ==
    /\ Full
    /\ scanSt = "started"
    /\ grTimer = "cleared"
    /\ record["temperature"] = 2
    /\ Len(adQ) >= 2

\* C11: when the scan of getRecord rejects (power-on timeout, scan start
\* refused, adapter state left 'poweredOn' while scanning) getRecord rejects
\* with the same error and no record, its deadline timer is no longer armed,
\* and from then on the promise and the timer do not change and the timer
\* requests no stop.
C11_ScanFailurePropagates ==
    /\ []((mode = "record" /\ scanSt = "rejected")
            => (/\ scanErr \in {"timeout", "start", "state"}
                /\ grSt = "rejected"
                /\ grErr = scanErr
                /\ grVal = EmptyRecord
                /\ grTimer # "armed"))
    /\ [][(mode = "record" /\ grSt = "rejected")
            => (/\ UNCHANGED <<grSt, grErr, grVal, grTimer>>
                /\ stopCbs' <= stopCbs)]_vars

\* C11 witness: getRecord was rejected by the power-on timeout while its
\* deadline timer was armed, and the timer was cancelled.
C11_Witness ==
    /\ mode = "record"
    /\ grSt = "rejected"
    /\ grErr = "timeout"
    /\ grTimer = "cleared"

\* powerOn has settled.
PowerOnSettled == poSt \in {"resolved", "rejected"}

\* C14: powerOn settles exactly once.  Called with the adapter powered on it
\* resolves at once; otherwise it waits with its stateChange listener and
\* its timer, resolves on the stateChange to 'poweredOn' and rejects when the
\* timer fires, the error carrying the adapter's state of that moment.  Once
\* settled, the listener is removed, the timer is not armed and the outcome
\* never changes.
C14_PowerOnSettlesOnce ==
    /\ [](/\ PowerOnSettled => (~poL /\ ~poTimer)
          /\ poSt = "waiting" => (poL /\ poTimer /\ nobleState # "poweredOn")
          /\ poSt = "rejected" <=> poErrState # "none"
          /\ poSt = "rejected" => (scanSt = "rejected" /\ scanErr = "timeout"))
    /\ [][/\ PowerOnSettled => UNCHANGED <<poSt, poErrState>>
          /\ (poSt = "idle" /\ poSt' # "idle") =>
                poSt' = IF nobleState = "poweredOn" THEN "resolved" ELSE "waiting"
          /\ (poSt = "waiting" /\ nobleState' = "poweredOn") => poSt' = "resolved"
          /\ (poSt = "waiting" /\ poSt' = "resolved") => nobleState' = "poweredOn"
          /\ (poSt = "waiting" /\ poSt' = "rejected") =>
                (/\ poErrState' = nobleState
                 /\ UNCHANGED nobleState)]_vars

C14_Witness ==
    /\ poSt = "rejected" /\ poErrState = "poweredOff"
    /\ ~poL /\ ~poTimer

\* The scan promise has settled.
ScanSettled == scanSt \in {"resolved", "rejected"}

\* C19: the 'discover', 'scanStop' and 'stateChange' listeners of a scan are
\* registered exactly while the scan is started and are removed together on
\* every exit path; once the scan promise has settled none of them is
\* registered, the caller's handler collects nothing more, and no later
\* event changes the outcome.
C19_ScanListenersRemoved ==
    /\ [](scanL = IF scanSt = "started"
                  THEN {"discover", "scanStop", "stateChange"} ELSE {})
    /\ [][ScanSettled =>
            UNCHANGED <<scanSt, scanErr, scanVal, scanL, stations, record>>]_vars

C19_Witness ==
    /\ mode = "scan" /\ scanSt = "resolved" /\ scanL = {}
    /\ Len(stations) = 1 /\ scanVal = stations
    /\ adQ # <<>>

-----------------------------------------------------------------------------
(* Properties of the advertisement filter (checked under SpecAdvert).      *)

\* Bytes 2..7 of the manufacturer data read little endian, as twelve
\* lowercase hex digits.
EmbeddedAddress(data) == HexOfBytes(Reverse(SubSeq(data, 3, 8)))

\* The normal form of an address: lowercase, colon-free.
Normalize(str) == StripColons(toLowerCase(str))

\* C12: scanForReadings decodes the payload of an advertisement of a
\* peripheral that has an address only if the manufacturer data is at least
\* 9 bytes long, starts with the company id 0x4842 (little endian) and embeds
\* the peripheral's own address in bytes 2..7; and every such payload whose
\* allow-list test passes is decoded from byte 8 on.
C12_DecodedIffValid ==
    (advDone /\ advOp = "scanForReadings" /\ advAddr # <<>>) =>
        LET lengthOk  == Len(advData) >= 9
            companyOk == readUInt16LE(advData) = COMPANY_ID
            selfOk    == EmbeddedAddress(advData) = AddressOf(advAddr)
            allowOk   == ~(advAllow.on /\ NotListed(advAllow, AddressOf(advAddr)))
            readings  == parseReadings(SubSeq(advData, 9, Len(advData)))
        IN  /\ advOut # <<>> => (lengthOk /\ companyOk /\ selfOk /\ allowOk)
            /\ (lengthOk /\ companyOk /\ selfOk /\ allowOk) => advOut = readings

\* C13: with a non-empty allow-list, an advertisement that is otherwise
\* valid is passed on exactly when some entry of the list has the normal
\* form of the peripheral's address, however the entry was written; and
\* normalising twice is normalising once.
C13_AllowListNormalized ==
    LET valid == \/ advOp = "scan"
                 \/ /\ Len(advData) >= 9
                    /\ readUInt16LE(advData) = COMPANY_ID
                    /\ readUIntLEHex(advData) = AddressOf(advAddr)
        listed == \E i \in DOMAIN advAllow.list :
                      Normalize(advAllow.list[i]) = Normalize(advAddr)
    IN  /\ \A i \in DOMAIN advAllow.list :
              Normalize(Normalize(advAllow.list[i])) = Normalize(advAllow.list[i])
        /\ (/\ advDone /\ advAllow.on /\ Len(advAllow.list) > 0
            /\ advAddr # <<>> /\ valid)
              => (advOut # <<>> <=> listed)

=============================================================================
